---- MODULE Spec2Model ----
(***************************************************************************)
(* Model of belts/main.py: the reduction of a flow problem with edge lower *)
(* bounds and node caps to one max-flow call on a transformed graph, the   *)
(* reconstruction of the original flows, the infeasibility certificate and *)
(* the command-line entry point.                                           *)
(*                                                                         *)
(* Amounts are integers in units of the tolerance: 1 stands for 1e-9, so   *)
(* every comparison against TOLERANCE is the comparison the code makes.    *)
(***************************************************************************)
EXTENDS Integers, Sequences, FiniteSets, TLC

\* ---------------------------------------------------------------- bounds
MaxEdges == 2
MaxAmount == 2

\* ------------------------------------------------------------- constants
TOLERANCE == 1
Inf == 1000000

\* ------------------------------------------------------- input universe
Nodes == {"a", "b", "c"}
None == "None"

Ord(n) == CASE n = "a" -> 1 [] n = "b" -> 2 [] n = "c" -> 3 [] OTHER -> 4

Amounts == 0 .. MaxAmount

PartialMaps(D, V) == UNION {[S -> V] : S \in SUBSET D}

SourceMaps == PartialMaps({"a"}, Amounts)

NodeCapMaps ==
  PartialMaps({"b"}, {0, MaxAmount}) \cup {[n \in {"b", "c"} |-> MaxAmount]}

EdgePairs == {<<"a", "b">>, <<"b", "c">>, <<"a", "c">>, <<"c", "a">>}

EdgeBounds ==
  {<<0, 0>>, <<0, MaxAmount>>, <<0, Inf>>,
   <<MaxAmount, MaxAmount>>, <<MaxAmount, 0>>}

EdgeRecords ==
  {[from |-> p[1], to |-> p[2], lower |-> b[1], upper |-> b[2]] :
     p \in EdgePairs, b \in EdgeBounds}

EdgeLists == UNION {[1 .. n -> EdgeRecords] : n \in 0 .. MaxEdges}

Instances ==
  [sources : SourceMaps,
   sink : {"c", None},
   edges : EdgeLists,
   node_caps : NodeCapMaps]

EmptyInstance ==
  [sources |-> [n \in {} |-> 0], sink |-> None, edges |-> <<>>,
   node_caps |-> [n \in {} |-> 0]]

Inputs ==
  {[json_ok |-> TRUE, data |-> d] : d \in Instances}
    \cup {[json_ok |-> FALSE, data |-> EmptyInstance]}

\* ---------------------------------------------------------------- helpers
RECURSIVE SumSet(_, _)
SumSet(S, f) ==
  IF S = {} THEN 0
  ELSE LET x == CHOOSE y \in S : TRUE IN f[x] + SumSet(S \ {x}, f)

Minus(hi, lo) == IF hi = Inf THEN Inf ELSE hi - lo

EmptyGraph == [nodes |-> {}, cap |-> [e \in {} |-> 0]]

add_edge(g, u, v, c) ==
  [nodes |-> g.nodes \cup {u, v},
   cap |-> [e \in DOMAIN g.cap \cup {<<u, v>>} |->
              IF e = <<u, v>> THEN c ELSE g.cap[e]]]

\* ------------------------------------------------ build_transformed_graph
all_nodes(data) ==
  DOMAIN data.sources \cup {data.sink}
    \cup {data.edges[i].from : i \in DOMAIN data.edges}
    \cup {data.edges[i].to : i \in DOMAIN data.edges}
    \cup DOMAIN data.node_caps

split_nodes(data) ==
  {n \in DOMAIN data.node_caps : n # data.sink /\ n \notin DOMAIN data.sources}

mapped_in(data, n) == IF n \in split_nodes(data) THEN n \o "_in" ELSE n
mapped_out(data, n) == IF n \in split_nodes(data) THEN n \o "_out" ELSE n

RECURSIVE AddSplitEdges(_, _, _)
AddSplitEdges(g, data, S) ==
  IF S = {} THEN g
  ELSE LET n == CHOOSE x \in S : TRUE
       IN AddSplitEdges(add_edge(g, n \o "_in", n \o "_out", data.node_caps[n]),
                        data, S \ {n})

EdgeCapacity(edge) ==
  LET cap == Minus(edge.upper, edge.lower)
  IN IF cap < TOLERANCE THEN 0 ELSE cap

RECURSIVE AddOriginalEdges(_, _, _)
AddOriginalEdges(g, data, i) ==
  IF i > Len(data.edges) THEN g
  ELSE LET edge == data.edges[i]
       IN AddOriginalEdges(
            add_edge(g, mapped_out(data, edge.from), mapped_in(data, edge.to),
                     EdgeCapacity(edge)),
            data, i + 1)

original_edges(data) ==
  [i \in DOMAIN data.edges |->
     [orig |-> <<data.edges[i].from, data.edges[i].to>>,
      mapped |-> <<mapped_out(data, data.edges[i].from),
                   mapped_in(data, data.edges[i].to)>>,
      lo |-> data.edges[i].lower]]

lo_demands(data) ==
  [n \in {data.edges[i].from : i \in DOMAIN data.edges}
           \cup {data.edges[i].to : i \in DOMAIN data.edges} |->
     SumSet({i \in DOMAIN data.edges : data.edges[i].to = n},
            [i \in DOMAIN data.edges |-> data.edges[i].lower])
     - SumSet({i \in DOMAIN data.edges : data.edges[i].from = n},
              [i \in DOMAIN data.edges |-> data.edges[i].lower])]

RECURSIVE AddDemandEdges(_, _, _)
AddDemandEdges(g, data, S) ==
  IF S = {} THEN g
  ELSE LET v == CHOOSE x \in S : TRUE
           d == lo_demands(data)[v]
           g1 == IF d > TOLERANCE
                   THEN add_edge(g, "s_super", mapped_in(data, v), d)
                 ELSE IF d < -TOLERANCE
                   THEN add_edge(g, mapped_out(data, v), "t_super", -d)
                 ELSE g
       IN AddDemandEdges(g1, data, S \ {v})

total_lo_demand(data) ==
  SumSet({v \in DOMAIN lo_demands(data) : lo_demands(data)[v] > TOLERANCE},
         lo_demands(data))

RECURSIVE AddSourceEdges(_, _, _)
AddSourceEdges(g, data, S) ==
  IF S = {} THEN g
  ELSE LET s == CHOOSE x \in S : TRUE
       IN AddSourceEdges(
            add_edge(g, "s_super", mapped_out(data, s), data.sources[s]),
            data, S \ {s})

total_supply(data) == SumSet(DOMAIN data.sources, data.sources)

\* variant: the sink edge is bounded as soon as a source is declared
sink_cap_declared(data) ==
  IF DOMAIN data.sources # {} THEN total_supply(data) ELSE Inf

sink_cap(data) ==
  IF total_supply(data) > TOLERANCE THEN total_supply(data) ELSE Inf

node_map(data) ==
  [x \in all_nodes(data) \cup {"s_super", "t_super"}
         \cup {n \o "_in" : n \in split_nodes(data)}
         \cup {n \o "_out" : n \in split_nodes(data)} |->
     IF \E n \in split_nodes(data) : x = n \o "_in" \/ x = n \o "_out"
       THEN CHOOSE n \in split_nodes(data) : x = n \o "_in" \/ x = n \o "_out"
       ELSE x]

\* variant: only the first edge's bounds are validated
ValidationFailsFirstEdge(data) ==
  \/ data.sink = None
  \/ /\ Len(data.edges) > 0
     /\ data.edges[1].upper < data.edges[1].lower - TOLERANCE

ValidationFails(data) ==
  \/ data.sink = None
  \/ \E i \in DOMAIN data.edges :
       data.edges[i].upper < data.edges[i].lower - TOLERANCE

TransformedGraph(data) ==
  LET g1 == AddSplitEdges(EmptyGraph, data, split_nodes(data))
      g2 == AddOriginalEdges(g1, data, 1)
      g3 == [nodes |-> g2.nodes \cup {"s_super", "t_super"}, cap |-> g2.cap]
      g4 == AddDemandEdges(g3, data, DOMAIN lo_demands(data))
      g5 == AddSourceEdges(g4, data, DOMAIN data.sources)
  IN add_edge(g5, mapped_in(data, data.sink), "t_super", sink_cap(data))

build_transformed_graph(data) ==
  [total_expected_flow |-> total_lo_demand(data) + total_supply(data),
   total_supply |-> total_supply(data),
   original_edges |-> original_edges(data),
   split_nodes |-> split_nodes(data),
   node_map |-> node_map(data)]

\* --------------------------------------------------------- MaxFlowOracle
\* nx.maximum_flow / nx.minimum_cut are an external library.  The oracle is
\* modelled by its contract: it augments along residual paths until none is
\* left, so it returns some integral maximum flow, and any minimum cut.
ZeroFlow(g) == [e \in DOMAIN g.cap |-> 0]

ResidualArcs(g, f) ==
  {[tail |-> e[1], head |-> e[2], edge |-> e, dir |-> 1] :
     e \in {x \in DOMAIN g.cap : f[x] < g.cap[x]}}
  \cup
  {[tail |-> e[2], head |-> e[1], edge |-> e, dir |-> -1] :
     e \in {x \in DOMAIN g.cap : f[x] > 0}}

RECURSIVE AugmentingPaths(_, _, _)
AugmentingPaths(arcs, u, visited) ==
  IF u = "t_super" THEN {<<>>}
  ELSE UNION {{<<a>> \o p :
                 p \in AugmentingPaths(arcs, a.head, visited \cup {a.head})} :
              a \in {x \in arcs : x.tail = u /\ x.head \notin visited}}

Paths(g, f) == AugmentingPaths(ResidualArcs(g, f), "s_super", {"s_super"})

Push(f, path) ==
  [e \in DOMAIN f |->
     IF \E i \in DOMAIN path : path[i].edge = e
       THEN f[e] + path[CHOOSE i \in DOMAIN path : path[i].edge = e].dir
       ELSE f[e]]

FlowValue(g, f) ==
  SumSet({e \in DOMAIN g.cap : e[1] = "s_super"}, f)

CutCapacity(g, S) ==
  SumSet({e \in DOMAIN g.cap : e[1] \in S /\ e[2] \notin S}, g.cap)

MinimumCuts(g, value) ==
  {S \in SUBSET g.nodes :
     /\ "s_super" \in S
     /\ "t_super" \notin S
     /\ CutCapacity(g, S) = value}

\* ---------------------------------------------------------- format_success
get_flow(flow_dict, e) == IF e \in DOMAIN flow_dict THEN flow_dict[e] ELSE 0

RECURSIVE final_flows(_, _, _)
final_flows(flow_dict, edges, i) ==
  IF i > Len(edges) THEN <<>>
  ELSE LET flow == get_flow(flow_dict, edges[i].mapped) + edges[i].lo
           rest == final_flows(flow_dict, edges, i + 1)
       IN IF flow > TOLERANCE
            THEN <<[from |-> edges[i].orig[1], to |-> edges[i].orig[2],
                    flow |-> flow]>> \o rest
            ELSE rest

format_success(flow_dict, edges, supply) ==
  [status |-> "ok",
   max_flow_per_min |-> supply,
   flows |-> final_flows(flow_dict, edges, 1)]

\* ------------------------------------------------------- format_infeasible
RECURSIVE sorted(_)
sorted(S) ==
  IF S = {} THEN <<>>
  ELSE LET m == CHOOSE x \in S : \A y \in S : Ord(x) <= Ord(y)
       IN <<m>> \o sorted(S \ {m})

\* variant: split facets are not mapped back to their owner
cut_reachable_unsplit(reachable, bd) ==
  {n \in reachable :
     n \in DOMAIN bd.node_map /\ bd.node_map[n] = n
       /\ n # "s_super" /\ n # "t_super"}

cut_reachable_original(reachable, bd) ==
  {bd.node_map[n] :
     n \in {x \in reachable :
              x \in DOMAIN bd.node_map /\ x # "s_super" /\ x # "t_super"}}

tight_nodes(reachable, unreachable, bd) ==
  {v \in bd.split_nodes :
     v \o "_in" \in reachable /\ v \o "_out" \in unreachable}

RECURSIVE tight_edges(_, _, _, _)
tight_edges(reachable, unreachable, edges, i) ==
  IF i > Len(edges) THEN <<>>
  ELSE LET rest == tight_edges(reachable, unreachable, edges, i + 1)
       IN IF edges[i].mapped[1] \in reachable
             /\ edges[i].mapped[2] \in unreachable
            THEN <<[from |-> edges[i].orig[1], to |-> edges[i].orig[2]]>>
                   \o rest
            ELSE rest

deficit_val(mf, total) == total - mf

format_infeasible(g, mf, total, bd, reachable) ==
  LET unreachable == g.nodes \ reachable
  IN [status |-> "infeasible",
      cut_reachable |-> sorted(cut_reachable_original(reachable, bd)),
      deficit |->
        [demand_balance |-> deficit_val(mf, total),
         tight_nodes |-> sorted(tight_nodes(reachable, unreachable, bd)),
         tight_edges |->
           tight_edges(reachable, unreachable, bd.original_edges, 1)]]

\* -------------------------------------------------------------- solve_belts
\* variant: the short-circuit test with the sign of the tolerance slipped
IsTrivialSignSlip(total) == total < -TOLERANCE

IsTrivial(total) == total < TOLERANCE

\* variant: the shortfall test with the tolerance added instead of subtracted
IsInfeasibleSignSlip(mf, total) == mf < total + TOLERANCE

\* variant: the shortfall test without the tolerance
IsInfeasibleStrict(mf, total) == mf < total

IsInfeasible(mf, total) == mf < total - TOLERANCE

\* ------------------------------------------------------------------ state
VARIABLES
  stdin,        \* what main() reads: malformed text or a problem instance
  pc,           \* position of the run
  G,            \* the transformed graph
  build_data,   \* bookkeeping returned with G
  flow,         \* the oracle's working flow on G
  max_flow,     \* value returned by nx.maximum_flow
  flow_dict,    \* flow assignment returned by nx.maximum_flow
  oracle_calls, \* library functions invoked so far
  output,       \* the result object
  exit_code     \* process exit status

vars == <<stdin, pc, G, build_data, flow, max_flow, flow_dict, oracle_calls,
          output, exit_code>>

NoBuild == [total_expected_flow |-> 0, total_supply |-> 0,
            original_edges |-> <<>>, split_nodes |-> {},
            node_map |-> [x \in {} |-> x]]

NoFlow == [e \in {} |-> 0]

NoOutput == [status |-> "none"]

NoExit == -1

Init ==
  /\ stdin \in Inputs
  /\ pc = "start"
  /\ G = EmptyGraph
  /\ build_data = NoBuild
  /\ flow = NoFlow
  /\ max_flow = 0
  /\ flow_dict = NoFlow
  /\ oracle_calls = {}
  /\ output = NoOutput
  /\ exit_code = NoExit

\* main(), lines 239-244: json.load raises JSONDecodeError
InputError ==
  /\ pc = "start"
  /\ ~stdin.json_ok
  /\ output' = [status |-> "error", message |-> "Invalid JSON input"]
  /\ exit_code' = 1
  /\ pc' = "exited"
  /\ UNCHANGED <<stdin, G, build_data, flow, max_flow, flow_dict, oracle_calls>>

\* solve_belts, lines 21-24: build_transformed_graph raises
BuildError ==
  /\ pc = "start"
  /\ stdin.json_ok
  /\ ValidationFails(stdin.data)
  /\ output' = [status |-> "error", message |-> "Failed to build graph"]
  /\ pc' = "returned"
  /\ UNCHANGED <<stdin, G, build_data, flow, max_flow, flow_dict, oracle_calls,
                 exit_code>>

\* solve_belts, line 22: build_transformed_graph returns
Build ==
  /\ pc = "start"
  /\ stdin.json_ok
  /\ ~ValidationFails(stdin.data)
  /\ G' = TransformedGraph(stdin.data)
  /\ build_data' = build_transformed_graph(stdin.data)
  /\ pc' = "built"
  /\ UNCHANGED <<stdin, flow, max_flow, flow_dict, oracle_calls, output,
                 exit_code>>

\* solve_belts, lines 28-34: the zero-demand short-circuit
ShortCircuit ==
  /\ pc = "built"
  /\ IsTrivial(build_data.total_expected_flow)
  /\ output' = format_success(NoFlow, build_data.original_edges, 0)
  /\ pc' = "returned"
  /\ UNCHANGED <<stdin, G, build_data, flow, max_flow, flow_dict, oracle_calls,
                 exit_code>>

\* solve_belts, line 37: nx.maximum_flow is entered
OracleCall ==
  /\ pc = "built"
  /\ ~IsTrivial(build_data.total_expected_flow)
  /\ oracle_calls' = oracle_calls \cup {"maximum_flow"}
  /\ flow' = ZeroFlow(G)
  /\ pc' = "solving"
  /\ UNCHANGED <<stdin, G, build_data, max_flow, flow_dict, output, exit_code>>

\* inside nx.maximum_flow: one unit along a residual path
OracleAugment ==
  /\ pc = "solving"
  /\ \E path \in Paths(G, flow) : flow' = Push(flow, path)
  /\ UNCHANGED <<stdin, pc, G, build_data, max_flow, flow_dict, oracle_calls,
                 output, exit_code>>

\* nx.maximum_flow returns (max_flow, flow_dict)
OracleReturn ==
  /\ pc = "solving"
  /\ Paths(G, flow) = {}
  /\ max_flow' = FlowValue(G, flow)
  /\ flow_dict' = flow
  /\ flow' = NoFlow
  /\ pc' = "solved"
  /\ UNCHANGED <<stdin, G, build_data, oracle_calls, output, exit_code>>

\* solve_belts, lines 40-43: nx.maximum_flow raises
OracleError ==
  /\ pc = "solving"
  /\ flow = ZeroFlow(G)
  /\ output' = [status |-> "error", message |-> "Max-flow algorithm failed"]
  /\ flow' = NoFlow
  /\ pc' = "returned"
  /\ UNCHANGED <<stdin, G, build_data, max_flow, flow_dict, oracle_calls,
                 exit_code>>

\* solve_belts, lines 46-52: format_infeasible with the cut nx.minimum_cut
\* returns
Infeasible ==
  /\ pc = "solved"
  /\ IsInfeasible(max_flow, build_data.total_expected_flow)
  /\ \E reachable \in MinimumCuts(G, max_flow) :
       output' = format_infeasible(G, max_flow,
                                   build_data.total_expected_flow,
                                   build_data, reachable)
  /\ oracle_calls' = oracle_calls \cup {"minimum_cut"}
  /\ pc' = "returned"
  /\ UNCHANGED <<stdin, G, build_data, flow, max_flow, flow_dict, exit_code>>

\* format_infeasible, lines 198-200: nx.minimum_cut raises
InfeasibleFallback ==
  /\ pc = "solved"
  /\ IsInfeasible(max_flow, build_data.total_expected_flow)
  /\ output' = format_infeasible(G, max_flow,
                                 build_data.total_expected_flow,
                                 build_data, {"s_super"})
  /\ oracle_calls' = oracle_calls \cup {"minimum_cut"}
  /\ pc' = "returned"
  /\ UNCHANGED <<stdin, G, build_data, flow, max_flow, flow_dict, exit_code>>

\* solve_belts, lines 53-59: format_success
Success ==
  /\ pc = "solved"
  /\ ~IsInfeasible(max_flow, build_data.total_expected_flow)
  /\ output' = format_success(flow_dict, build_data.original_edges,
                              build_data.total_supply)
  /\ pc' = "returned"
  /\ UNCHANGED <<stdin, G, build_data, flow, max_flow, flow_dict, oracle_calls,
                 exit_code>>

\* main(), lines 246-248: print the result and fall off the end
PrintResult ==
  /\ pc = "returned"
  /\ exit_code' = 0
  /\ pc' = "exited"
  /\ UNCHANGED <<stdin, G, build_data, flow, max_flow, flow_dict, oracle_calls,
                 output>>

Next ==
  \/ InputError
  \/ BuildError
  \/ Build
  \/ ShortCircuit
  \/ OracleCall
  \/ OracleAugment
  \/ OracleReturn
  \/ OracleError
  \/ Infeasible
  \/ InfeasibleFallback
  \/ Success
  \/ PrintResult

Spec == Init /\ [][Next]_vars

\* ------------------------------------------------------------ properties
Returned == pc \in {"returned", "exited"}

BuiltOk == stdin.json_ok /\ pc # "start" /\ G # EmptyGraph

InputEdges == stdin.data.edges

FlowSum(flows, I) == SumSet(I, [i \in DOMAIN flows |-> flows[i].flow])

ReportedOut(n) ==
  FlowSum(output.flows, {i \in DOMAIN output.flows : output.flows[i].from = n})

ReportedIn(n) ==
  FlowSum(output.flows, {i \in DOMAIN output.flows : output.flows[i].to = n})

InnerNodes ==
  {n \in all_nodes(stdin.data) :
     n # stdin.data.sink /\ n \notin DOMAIN stdin.data.sources}

\* C1: in every "ok" result each entry of flows can be attributed to an input
\* edge of its own, with the same endpoints, whose bounds it respects within
\* the tolerance, lower <= flow <= upper.
BoundCompliance ==
  (Returned /\ output.status = "ok") =>
    \E m \in [DOMAIN output.flows -> DOMAIN InputEdges] :
      /\ \A i, j \in DOMAIN output.flows : i # j => m[i] # m[j]
      /\ \A i \in DOMAIN output.flows :
           /\ InputEdges[m[i]].from = output.flows[i].from
           /\ InputEdges[m[i]].to = output.flows[i].to
           /\ output.flows[i].flow >= InputEdges[m[i]].lower - TOLERANCE
           /\ output.flows[i].flow <= InputEdges[m[i]].upper + TOLERANCE

\* C2: in every "ok" result the reported flow leaving a node that is neither
\* a source nor the sink equals the reported flow entering it, within the
\* tolerance.
FlowConservation ==
  (Returned /\ output.status = "ok") =>
    \A n \in InnerNodes :
      /\ ReportedOut(n) - ReportedIn(n) <= TOLERANCE
      /\ ReportedIn(n) - ReportedOut(n) <= TOLERANCE

\* C3: in every "ok" result the reported flow entering a capped node that is
\* neither a source nor the sink is at most its cap, within the tolerance.
NodeCapCompliance ==
  (Returned /\ output.status = "ok") =>
    \A n \in DOMAIN stdin.data.node_caps \cap InnerNodes :
      ReportedIn(n) <= stdin.data.node_caps[n] + TOLERANCE

\* The original problem: an assignment of flows to the input edges that keeps
\* every bound, every node cap, conservation and each source's supply, each
\* to within slack.
FlowCeiling(data) ==
  total_supply(data)
    + SumSet(DOMAIN data.edges, [i \in DOMAIN data.edges |-> data.edges[i].lower])

AssignedOut(data, f, n) ==
  SumSet({i \in DOMAIN data.edges : data.edges[i].from = n}, f)

AssignedIn(data, f, n) ==
  SumSet({i \in DOMAIN data.edges : data.edges[i].to = n}, f)

Within(x, y, slack) == x - y <= slack /\ y - x <= slack

FeasibleAssignment(data, f, slack) ==
  /\ \A i \in DOMAIN data.edges :
       /\ f[i] >= data.edges[i].lower - slack
       /\ f[i] <= data.edges[i].upper + slack
  /\ \A n \in all_nodes(data) :
       IF n \in DOMAIN data.sources
         THEN Within(AssignedOut(data, f, n) - AssignedIn(data, f, n),
                     data.sources[n], slack)
       ELSE IF n = data.sink THEN TRUE
       ELSE /\ Within(AssignedOut(data, f, n), AssignedIn(data, f, n), slack)
            /\ n \in DOMAIN data.node_caps =>
                 AssignedIn(data, f, n) <= data.node_caps[n] + slack

Feasible(data, slack) ==
  \E f \in [DOMAIN data.edges -> 0 .. FlowCeiling(data)] :
    FeasibleAssignment(data, f, slack)

\* C4: "infeasible" is returned only when no assignment of flows to the input
\* edges meets every bound, cap, conservation and supply, and "ok" only when
\* one does (to within the tolerance).
FeasibilityExact ==
  Returned =>
    /\ output.status = "infeasible" => ~Feasible(stdin.data, 0)
    /\ output.status = "ok" => Feasible(stdin.data, TOLERANCE)

\* C5: an input with no sink, or with an edge whose upper is below lower by
\* more than the tolerance, never reaches the oracle and ends in "error"
\* without flows, wherever the offending edge stands in the list.
InvalidInput ==
  /\ stdin.json_ok
  /\ \/ stdin.data.sink = None
     \/ \E i \in DOMAIN InputEdges :
          InputEdges[i].upper < InputEdges[i].lower - TOLERANCE

ValidationAborts ==
  InvalidInput =>
    /\ oracle_calls = {}
    /\ pc \in {"start", "returned", "exited"}
    /\ Returned =>
         /\ output.status = "error"
         /\ "flows" \notin DOMAIN output

ValidationAbortsWitness ==
  /\ Returned
  /\ output.status = "error"
  /\ stdin.data.sink # None
  /\ Len(InputEdges) = 2
  /\ InputEdges[1].upper >= InputEdges[1].lower
  /\ InputEdges[2].upper < InputEdges[2].lower - TOLERANCE

\* C6: from Solved the run goes to "ok" exactly when max_flow >=
\* total_expected_flow - tolerance and to "infeasible" otherwise, carrying
\* demand_balance = total_expected_flow - max_flow; a result, once produced,
\* is one of ok / infeasible / error and is never replaced.
OrchestratorStep ==
  /\ pc = "solved" /\ pc' # "solved" =>
       /\ pc' = "returned"
       /\ IF max_flow >= build_data.total_expected_flow - TOLERANCE
            THEN output'.status = "ok"
            ELSE /\ output'.status = "infeasible"
                 /\ output'.deficit.demand_balance
                      = build_data.total_expected_flow - max_flow
  /\ pc' \in {"returned", "exited"} =>
       output'.status \in {"ok", "infeasible", "error"}
  /\ pc \in {"returned", "exited"} =>
       output' = output /\ pc' \in {"returned", "exited"}

OrchestratorTransition == [][OrchestratorStep]_vars

OrchestratorWitness ==
  /\ pc = "returned"
  /\ output.status = "infeasible"
  /\ oracle_calls = {"maximum_flow", "minimum_cut"}
  /\ max_flow > 0

\* C7: in every "infeasible" result each tight edge starts at a node listed
\* in cut_reachable and demand_balance exceeds the tolerance.
CutSoundness ==
  (Returned /\ output.status = "infeasible") =>
    /\ \A i \in DOMAIN output.deficit.tight_edges :
         \E j \in DOMAIN output.cut_reachable :
           output.cut_reachable[j] = output.deficit.tight_edges[i].from
    /\ output.deficit.demand_balance > TOLERANCE

CutSoundnessWitness ==
  /\ Returned
  /\ output.status = "infeasible"
  /\ \E i \in DOMAIN output.deficit.tight_edges :
       output.deficit.tight_edges[i].from \in build_data.split_nodes

\* C8: in every "infeasible" result cut_reachable, tight_nodes and
\* tight_edges are strictly increasing by identifier (tight_edges by
\* (from, to)), hence sorted and free of duplicates.
EdgeBefore(x, y) ==
  \/ Ord(x.from) < Ord(y.from)
  \/ Ord(x.from) = Ord(y.from) /\ Ord(x.to) < Ord(y.to)

CertificateSorted ==
  (Returned /\ output.status = "infeasible") =>
    /\ \A i, j \in DOMAIN output.cut_reachable :
         i < j => Ord(output.cut_reachable[i]) < Ord(output.cut_reachable[j])
    /\ \A i, j \in DOMAIN output.deficit.tight_nodes :
         i < j => Ord(output.deficit.tight_nodes[i])
                    < Ord(output.deficit.tight_nodes[j])
    /\ \A i, j \in DOMAIN output.deficit.tight_edges :
         i < j => EdgeBefore(output.deficit.tight_edges[i],
                             output.deficit.tight_edges[j])

\* C9 as stated: with total_expected_flow <= tolerance after a successful
\* build the oracle is never invoked and the result is "ok" with
\* max_flow_per_min = 0.
ShortCircuitAtTolerance ==
  (BuiltOk /\ build_data.total_expected_flow <= TOLERANCE) =>
    /\ oracle_calls = {}
    /\ pc \in {"built", "returned", "exited"}
    /\ Returned => output.status = "ok" /\ output.max_flow_per_min = 0

\* C9 amended: with total_expected_flow strictly below the tolerance after
\* a successful build the oracle is never invoked and the result is "ok"
\* with max_flow_per_min = 0; with no sources and every lower = 0 the
\* result also has flows = [].
ShortCircuitBelowTolerance ==
  /\ (BuiltOk /\ build_data.total_expected_flow < TOLERANCE) =>
       /\ oracle_calls = {}
       /\ pc \in {"built", "returned", "exited"}
       /\ Returned => output.status = "ok" /\ output.max_flow_per_min = 0
  /\ (BuiltOk /\ Returned /\ DOMAIN stdin.data.sources = {}
        /\ \A i \in DOMAIN InputEdges : InputEdges[i].lower = 0) =>
       /\ oracle_calls = {}
       /\ output = [status |-> "ok", max_flow_per_min |-> 0, flows |-> <<>>]

ShortCircuitWitness ==
  /\ BuiltOk
  /\ Returned
  /\ DOMAIN stdin.data.sources = {}
  /\ DOMAIN stdin.data.node_caps # {}
  /\ Len(InputEdges) = 2
  /\ output.status = "ok"
  /\ output.flows = <<>>

\* C10: the process exits with 0 exactly when the printed status is "ok" or
\* "infeasible", and non-zero whenever it is "error".
ExitCodeMatchesStatus ==
  pc = "exited" =>
    (exit_code = 0 <=> output.status \in {"ok", "infeasible"})

\* Every flow the oracle can return for g: the flows at which augmentation,
\* started from f, stops.
RECURSIVE MaximumFlowsFrom(_, _)
MaximumFlowsFrom(g, f) ==
  IF Paths(g, f) = {} THEN {f}
  ELSE UNION {MaximumFlowsFrom(g, Push(f, p)) : p \in Paths(g, f)}

MaximumFlows(g) == MaximumFlowsFrom(g, ZeroFlow(g))

MinCutValue(g) ==
  LET cuts == {S \in SUBSET g.nodes : "s_super" \in S /\ "t_super" \notin S}
  IN CHOOSE c \in {CutCapacity(g, S) : S \in cuts} :
       \A S \in cuts : c <= CutCapacity(g, S)

Solved == Returned /\ "maximum_flow" \in oracle_calls
            /\ output.status \in {"ok", "infeasible"}

\* C11 as stated: the status and the reported flows of a result are the same
\* for every maximum flow a conforming oracle may return for the instance.
ResultIndependentOfOracle ==
  (Solved /\ output.status = "ok") =>
    \A f \in MaximumFlows(G) :
      final_flows(f, build_data.original_edges, 1) = output.flows

\* C11 amended: the status is a function of the instance alone, "ok" exactly
\* when the minimum cut of the instance's transformed graph is at least
\* total_expected_flow - tolerance, whichever maximum flow the oracle
\* returns; the reported flows are those of the returned flow assignment.
StatusOfInstance(data) ==
  LET total == total_lo_demand(data) + total_supply(data)
  IN IF MinCutValue(TransformedGraph(data)) >= total - TOLERANCE
       THEN "ok" ELSE "infeasible"

StatusIndependentOfOracle ==
  Solved =>
    /\ output.status = StatusOfInstance(stdin.data)
    /\ output.status = "ok" =>
         output.flows = final_flows(flow_dict, build_data.original_edges, 1)

StatusIndependentWitness ==
  /\ Solved
  /\ output.status = "ok"
  /\ \E f \in MaximumFlows(G) :
       final_flows(f, build_data.original_edges, 1) # output.flows

\* C12: after the build every input edge (u, v, lower, upper) has the
\* transformed edge (out(u), in(v)) with capacity max(upper - lower, 0), and
\* in an "ok" result of the max-flow path the reported flows from u to v sum
\* to the transformed flow on (out(u), in(v)) plus those edges' lower bounds
\* (for pairs all of whose edges are reported).
EdgesOfPair(u, v) ==
  {i \in DOMAIN InputEdges : InputEdges[i].from = u /\ InputEdges[i].to = v}

ReportedOfPair(u, v) ==
  {i \in DOMAIN output.flows :
     output.flows[i].from = u /\ output.flows[i].to = v}

MappedEdge(i) ==
  <<mapped_out(stdin.data, InputEdges[i].from),
    mapped_in(stdin.data, InputEdges[i].to)>>

EdgeMappingExact ==
  /\ BuiltOk =>
       \A i \in DOMAIN InputEdges :
         /\ MappedEdge(i) \in DOMAIN G.cap
         /\ G.cap[MappedEdge(i)]
              = IF InputEdges[i].upper = Inf THEN Inf
                ELSE IF InputEdges[i].upper - InputEdges[i].lower > 0
                  THEN InputEdges[i].upper - InputEdges[i].lower
                ELSE 0
  /\ (Solved /\ output.status = "ok") =>
       \A i \in DOMAIN InputEdges :
         LET u == InputEdges[i].from
             v == InputEdges[i].to
         IN Cardinality(ReportedOfPair(u, v)) = Cardinality(EdgesOfPair(u, v))
              => FlowSum(output.flows, ReportedOfPair(u, v))
                   = flow_dict[MappedEdge(i)]
                       + SumSet(EdgesOfPair(u, v),
                                [j \in DOMAIN InputEdges |-> InputEdges[j].lower])

\* C13: in the built graph every node of balance > tolerance has the edge
\* s_super -> in(node) of capacity its balance, every node of balance
\* < -tolerance has out(node) -> t_super of capacity -balance, every source
\* has s_super -> out(source) of capacity its supply, and the capacities
\* leaving s_super sum to total_expected_flow.
Balance(n) == lo_demands(stdin.data)[n]

SupersourceInjection ==
  BuiltOk =>
    /\ \A n \in DOMAIN lo_demands(stdin.data) :
         /\ Balance(n) > TOLERANCE =>
              /\ <<"s_super", mapped_in(stdin.data, n)>> \in DOMAIN G.cap
              /\ G.cap[<<"s_super", mapped_in(stdin.data, n)>>] = Balance(n)
         /\ Balance(n) < -TOLERANCE =>
              /\ <<mapped_out(stdin.data, n), "t_super">> \in DOMAIN G.cap
              /\ G.cap[<<mapped_out(stdin.data, n), "t_super">>] = -Balance(n)
    /\ \A n \in DOMAIN stdin.data.sources :
         /\ <<"s_super", mapped_out(stdin.data, n)>> \in DOMAIN G.cap
         /\ G.cap[<<"s_super", mapped_out(stdin.data, n)>>]
              = stdin.data.sources[n]
    /\ SumSet({e \in DOMAIN G.cap : e[1] = "s_super"}, G.cap)
         = build_data.total_expected_flow

\* C14 as stated: the edge in(sink) -> t_super has capacity total_supply as
\* soon as a source is declared, and is unbounded only without sources.
DeclaredSupply == SumSet(DOMAIN stdin.data.sources, stdin.data.sources)

SinkEdge == <<mapped_in(stdin.data, stdin.data.sink), "t_super">>

SinkCapacityWhenDeclared ==
  BuiltOk =>
    /\ SinkEdge \in DOMAIN G.cap
    /\ G.cap[SinkEdge]
         = IF DOMAIN stdin.data.sources # {} THEN DeclaredSupply ELSE Inf

\* C14 amended: the edge in(sink) -> t_super has capacity total_supply when
\* total_supply exceeds the tolerance and is unbounded otherwise, also when
\* sources are declared whose supplies sum to at most the tolerance.
SinkCapacityBySupply ==
  BuiltOk =>
    /\ SinkEdge \in DOMAIN G.cap
    /\ G.cap[SinkEdge]
         = IF DeclaredSupply > TOLERANCE THEN DeclaredSupply ELSE Inf

SinkCapacityWitness ==
  /\ BuiltOk
  /\ DOMAIN stdin.data.sources # {}
  /\ DeclaredSupply <= TOLERANCE
  /\ stdin.data.sink \in DOMAIN lo_demands(stdin.data)
  /\ Balance(stdin.data.sink) < -TOLERANCE
  /\ G.cap[SinkEdge] = Inf

\* C15: in every "ok" result max_flow_per_min equals the sum of the declared
\* supplies and the net reported flow arriving at the sink, within the
\* tolerance.
ThroughputMatchesFlows ==
  (BuiltOk /\ Returned /\ output.status = "ok") =>
    /\ Within(output.max_flow_per_min, DeclaredSupply, TOLERANCE)
    /\ Within(output.max_flow_per_min,
              ReportedIn(stdin.data.sink) - ReportedOut(stdin.data.sink),
              TOLERANCE)
====
